---- MODULE Spec2Model ----
(***************************************************************************)
(* A state-machine model of meraki_deployment.py: one run of main() against *)
(* the Meraki dashboard.  Every remote call the script issues is appended   *)
(* to `calls` (with whether it returned or raised meraki.APIError), every   *)
(* log line the properties need is added to `logged`, and sys.exit(1) /     *)
(* falling off the end of main() set `exitCode`.                            *)
(*                                                                          *)
(* The dashboard is an external system.  Its network collection is a store  *)
(* (`networks`: createOrganizationNetwork appends, getOrganizationNetworks  *)
(* reads); every other listing returns a value chosen when the call is made *)
(* and any call may raise meraki.APIError.                                  *)
(***************************************************************************)
EXTENDS Naturals, Sequences, FiniteSets

\* ------------------------------------------------------------------ bounds
MaxNets == 2        \* networks in the organization before the run
MaxInv == 2         \* devices in the organization inventory listing
MaxTemplates == 2   \* configuration templates in the template listing

\* ------------------------------------------------------------------ values
\* Python's None (and every other falsy argument value: "" is treated alike).
None == "None"
\* The marker for "the function did not return: sys.exit(1) was called".
Exit == "EXIT"

Truthy(x) == x # None

NetworkNames == {"Branch-12", "HQ"}
NetIds == <<"N1", "N2", "N3", "N4", "N5", "N6">>
TemplateNames == {"HQ-Template", "Other-Template"}
TemplateIds == <<"T1", "T2", "T3", "T4">>
InvSerials == <<"Q2AA-1", "Q2BB-2", "Q2CC-3", "Q2DD-4", "Q2EE-5">>
\* Model strings of inventory devices, and which of them contain the two
\* substrings get_available_devices tests with `in`.
ModelNames == {"MS120-8", "MX85", "MR36", "MX85-MS"}
ContainsMS(model) == model \in {"MS120-8", "MX85-MS"}
ContainsMX85(model) == model \in {"MX85", "MX85-MS"}

Switch == "Switch"
Appliance == "MX85 Security Appliance"
DeviceTypes == {Switch, Appliance}

\* Sequences over S of length at most n.
SeqUpTo(S, n) == UNION {[1..k -> S] : k \in 0..n}

\* A listing of n named things: identifiers are assigned by position.
Listing(names, ids) == [i \in 1..Len(names) |-> [id |-> ids[i], name |-> names[i]]]

NetworkListings == {Listing(ns, NetIds) : ns \in SeqUpTo(NetworkNames, MaxNets)}
TemplateListings == {Listing(ns, TemplateIds) : ns \in SeqUpTo(TemplateNames, MaxTemplates)}
Inventories ==
    {[i \in 1..Len(ms) |-> [serial |-> InvSerials[i], model |-> ms[i]]] :
        ms \in SeqUpTo(ModelNames, MaxInv)}

VARIABLES
    args,               \* the parsed command line (argparse namespace)
    networks,           \* dashboard: the organization's networks, in listing order
    initial_networks,   \* history: `networks` as it was when the run started
    network_id,         \* main: network_id
    returned,           \* history: what each get_or_create_network call returned
    bind_result,        \* main: what bind_network_to_template returned
    templates,          \* bind_network_to_template: templates
    template_id,        \* bind_network_to_template: template_id
    devices,            \* get_available_devices: devices
    switch_serial,      \* main: switch_serial
    mx85_serial,        \* main: mx85_serial
    cur,                \* deploy_meraki_device: device_type of the running call
    assigned_serials,   \* deploy_meraki_device: assigned_serials, per device_type
    pc,                 \* the statement main() is at
    exitCode,           \* the process exit status, None while running
    calls,              \* every remote call issued so far, in order
    logged              \* log lines written so far

vars == <<args, networks, initial_networks, network_id, returned, bind_result,
          templates, template_id, devices, switch_serial, mx85_serial, cur,
          assigned_serials, pc, exitCode, calls, logged>>

\* One remote call: the SDK method, its arguments (a tuple of strings), whether
\* it returned (ok) or raised meraki.APIError, and the function that issued it
\* (for deploy_meraki_device: its device_type).
Call(op, arg, ok, by) == [op |-> op, arg |-> arg, ok |-> ok, by |-> by]

Log(msg, arg) == <<msg, arg>>

Min(S) == CHOOSE i \in S : \A j \in S : i <= j

\* ------------------------------------------------------------------ Init
ArgSpace ==
    [dry_run : BOOLEAN,
     network_name : {None, "Branch-12"},
     ignore_existing : BOOLEAN,
     template : {None, "HQ-Template"},
     address : {None, "1 Main St"},
     switch_serial : {None, "ABC-1"},
     appliance_serial : {None, "XYZ-2"}]

NotFetched == [fetched |-> FALSE, serials |-> {}]

Init ==
    /\ args \in ArgSpace
    /\ networks \in NetworkListings
    /\ initial_networks = networks
    /\ network_id = None
    /\ returned = <<>>
    /\ bind_result = "NotRun"
    /\ templates = <<>>
    /\ template_id = None
    /\ devices = <<>>
    /\ switch_serial = None
    /\ mx85_serial = None
    /\ cur = None
    /\ assigned_serials = [t \in DeviceTypes |-> NotFetched]
    /\ pc = "resolve"
    /\ exitCode = None
    /\ calls = <<>>
    /\ logged = {}

\* ------------------------------------------------- get_or_create_network
GOCN == "get_or_create_network"

\* A faulty variant of Matches: the name is compared with the wrong field of the
\* listing, so no network ever matches.
MatchesWrongField(nets, name) == {i \in 1..Len(nets) : nets[i].id = name}

\* Indices of the networks named `name`, in listing order.
Matches(nets, name) == {i \in 1..Len(nets) : nets[i].name = name}

ListNetworks(ok) == Call("getOrganizationNetworks", <<"org">>, ok, GOCN)

NewNetwork(name) == [id |-> NetIds[Len(networks) + 1], name |-> name]

\* createOrganizationNetwork(name=...) and what follows it in the function.
CreateNetwork(name, ret) ==
    \/ /\ networks' = Append(networks, NewNetwork(name))
       /\ calls' = calls \o <<ListNetworks(TRUE),
                              Call("createOrganizationNetwork", <<name>>, TRUE, GOCN)>>
       /\ logged' = logged \cup {Log("Created network", name)}
       /\ ret = NewNetwork(name).id
    \/ /\ networks' = networks
       /\ calls' = calls \o <<ListNetworks(TRUE),
                              Call("createOrganizationNetwork", <<name>>, FALSE, GOCN)>>
       /\ logged' = logged \cup {Log("Error with network operations", name)}
       /\ ret = Exit

\* A faulty variant of ExistingNetwork: the ignore_existing test is dropped.
ExistingNetworkAlwaysUsed(network, ignore_existing) == network.id

\* Lines 59-63: the first network of that name is returned only with
\* ignore_existing.
ExistingNetwork(network, ignore_existing) ==
    IF ~ignore_existing THEN None ELSE network.id

\* A branch of the function that only reads the listing.
UseListing(ret, value, line) ==
    /\ networks' = networks
    /\ calls' = Append(calls, ListNetworks(TRUE))
    /\ logged' = logged \cup {line}
    /\ ret = value

\* get_or_create_network(network_name, tags, ignore_existing) returning `ret`
\* (an identifier, None, or Exit when it called sys.exit(1)).  The tags only
\* travel into the create call and decide nothing, so they are left out.
get_or_create_network(network_name, ignore_existing, ret) ==
    \/ /\ networks' = networks
       /\ calls' = Append(calls, ListNetworks(FALSE))
       /\ logged' = logged \cup {Log("Error with network operations", "list")}
       /\ ret = Exit
    \/ /\ Truthy(network_name)
       /\ Matches(networks, network_name) # {}
       /\ UseListing(ret,
                     ExistingNetwork(networks[Min(Matches(networks, network_name))],
                                     ignore_existing),
                     Log(IF ignore_existing THEN "Using existing network"
                                            ELSE "already exists", network_name))
    \/ /\ Truthy(network_name)
       /\ Matches(networks, network_name) = {}
       /\ CreateNetwork(network_name, ret)
    \/ /\ ~Truthy(network_name)
       /\ networks # <<>>
       /\ UseListing(ret, networks[1].id, Log("Using existing network", networks[1].name))
    \/ /\ ~Truthy(network_name)
       /\ networks = <<>>
       /\ CreateNetwork("Automated Network", ret)

RetVals == {None, Exit} \cup {NetIds[i] : i \in 1..Len(NetIds)}

\* sys.exit(1)
SysExit == pc' = "exit" /\ exitCode' = "1"

\* main, line 195: `if not network_id`
NoNetwork(id) == ~Truthy(id)

\* main, lines 193-196: resolve the network, stop when there is none.
Resolve ==
    /\ pc = "resolve"
    /\ \E ret \in RetVals :
        /\ get_or_create_network(args.network_name, args.ignore_existing, ret)
        /\ returned' = IF ret = Exit THEN returned ELSE Append(returned, ret)
        /\ network_id' = IF ret = Exit THEN network_id ELSE ret
        /\ IF ret = Exit \/ NoNetwork(ret)
             THEN SysExit
             ELSE /\ exitCode' = exitCode
                  /\ pc' = IF Truthy(args.template) /\ ~args.dry_run
                             THEN "bind" ELSE "serials"
    /\ UNCHANGED <<args, initial_networks, bind_result, templates, template_id,
                   devices, switch_serial, mx85_serial, cur, assigned_serials>>

\* ---------------------------------------------- bind_network_to_template
BNTT == "bind_network_to_template"

\* Lines 156-160: the id of the first template with that name, None if none.
FindTemplate(tl, template_name) ==
    IF Matches(tl, template_name) = {} THEN None
    ELSE tl[Min(Matches(tl, template_name))].id

\* A faulty variant of BindFailed: a failed binding ends the run.
BindFailedExits ==
    /\ bind_result' = "False"
    /\ SysExit

\* main, lines 200-201: bind_network_to_template returned False.
BindFailed ==
    /\ bind_result' = "False"
    /\ pc' = "serials"
    /\ exitCode' = exitCode

\* Lines 153-160: list the templates and look the name up.
BindTemplate ==
    /\ pc = "bind"
    /\ \/ /\ calls' = Append(calls, Call("getOrganizationConfigTemplates", <<"org">>, FALSE, BNTT))
          /\ logged' = logged \cup {Log("Failed to bind network to template", "list"),
                                    Log("Continuing deployment without template binding.", "")}
          /\ UNCHANGED <<templates, template_id>>
          /\ BindFailed
       \/ \E tl \in TemplateListings :
            /\ calls' = Append(calls, Call("getOrganizationConfigTemplates", <<"org">>, TRUE, BNTT))
            /\ templates' = tl
            /\ template_id' = FindTemplate(tl, args.template)
            /\ logged' = logged
            /\ pc' = "bindNetwork"
            /\ UNCHANGED <<bind_result, exitCode>>
    /\ UNCHANGED <<args, networks, initial_networks, network_id, returned, devices,
                   switch_serial, mx85_serial, cur, assigned_serials>>

\* Lines 162-173: give up when the name was not found, else the bind call
\* itself.  The function returns here, and its locals go with it.
BindNetwork ==
    /\ pc = "bindNetwork"
    /\ \/ /\ ~Truthy(template_id)
          /\ calls' = calls
          /\ logged' = logged \cup
                {Log("Template not found", args.template),
                 Log("Continuing deployment without template binding.", "")}
          /\ BindFailed
       \/ /\ Truthy(template_id)
          /\ calls' = Append(calls, Call("bindNetwork", <<network_id, template_id>>, TRUE, BNTT))
          /\ logged' = logged \cup {Log("Network successfully bound to template", args.template)}
          /\ bind_result' = "True"
          /\ pc' = "serials"
          /\ exitCode' = exitCode
       \/ /\ Truthy(template_id)
          /\ calls' = Append(calls, Call("bindNetwork", <<network_id, template_id>>, FALSE, BNTT))
          /\ logged' = logged \cup {Log("Failed to bind network to template", "bind"),
                                    Log("Continuing deployment without template binding.", "")}
          /\ BindFailed
    /\ templates' = <<>>
    /\ template_id' = None
    /\ UNCHANGED <<args, networks, initial_networks, network_id, returned,
                   devices, switch_serial, mx85_serial, cur, assigned_serials>>

\* ------------------------------------------------- get_available_devices
GAD == "get_available_devices"

\* A faulty variant of Scan: `if` in place of `elif`, the two classes decided
\* independently of each other.
RECURSIVE ScanIndependent(_, _, _, _)
ScanIndependent(devs, i, sw, mx) ==
    IF i > Len(devs) THEN <<sw, mx>>
    ELSE ScanIndependent(devs, i + 1,
            IF ContainsMS(devs[i].model) /\ ~Truthy(sw) THEN devs[i].serial ELSE sw,
            IF ContainsMX85(devs[i].model) /\ ~Truthy(mx) THEN devs[i].serial ELSE mx)

\* Lines 101-106: the loop over the listing, from device i on, with the two
\* serials found so far.
RECURSIVE Scan(_, _, _, _)
Scan(devs, i, sw, mx) ==
    IF i > Len(devs) THEN <<sw, mx>>
    ELSE IF ContainsMS(devs[i].model) /\ ~Truthy(sw)
           THEN Scan(devs, i + 1, devs[i].serial, mx)
         ELSE IF ContainsMX85(devs[i].model) /\ ~Truthy(mx)
           THEN Scan(devs, i + 1, sw, devs[i].serial)
         ELSE Scan(devs, i + 1, sw, mx)

\* A faulty variant of FoundBoth: only the switch is required.
FoundSwitchOnly == Truthy(switch_serial)

\* Line 107.
FoundBoth == Truthy(switch_serial) /\ Truthy(mx85_serial)

\* main, lines 211-216: what follows once both serials are known.
AfterSerials ==
    IF args.dry_run
      THEN pc' = "dryrun" /\ cur' = cur
      ELSE pc' = "claim" /\ cur' = Switch

\* main, line 204.
BothProvided == Truthy(args.switch_serial) /\ Truthy(args.appliance_serial)

\* A faulty variant of ProvidedSerials: the two arguments are swapped.
ProvidedSerialsSwapped == <<args.appliance_serial, args.switch_serial>>

\* main, lines 205-206.
ProvidedSerials == <<args.switch_serial, args.appliance_serial>>

\* main, lines 204-207: both serials were given on the command line.
UseProvidedSerials ==
    /\ pc = "serials"
    /\ BothProvided
    /\ switch_serial' = ProvidedSerials[1]
    /\ mx85_serial' = ProvidedSerials[2]
    /\ logged' = logged \cup {Log("Using provided device serials", "")}
    /\ AfterSerials
    /\ UNCHANGED <<args, networks, initial_networks, network_id, returned, bind_result,
                   templates, template_id, devices, assigned_serials, exitCode, calls>>

\* main, line 209, and lines 100-106, 110-112: the inventory listing and the
\* loop over it.  switch_serial and mx85_serial are the function's locals
\* until it returns them to main's variables of the same names.
LocateDevices ==
    /\ pc = "serials"
    /\ ~BothProvided
    /\ \/ /\ calls' = Append(calls, Call("getOrganizationDevices", <<"org">>, FALSE, GAD))
          /\ logged' = logged \cup {Log("Error retrieving devices", "")}
          /\ SysExit
          /\ UNCHANGED <<devices, switch_serial, mx85_serial>>
       \/ \E devs \in Inventories :
            /\ calls' = Append(calls, Call("getOrganizationDevices", <<"org">>, TRUE, GAD))
            /\ devices' = devs
            /\ switch_serial' = Scan(devs, 1, None, None)[1]
            /\ mx85_serial' = Scan(devs, 1, None, None)[2]
            /\ logged' = logged
            /\ pc' = "located"
            /\ exitCode' = exitCode
    /\ UNCHANGED <<args, networks, initial_networks, network_id, returned, bind_result,
                   templates, template_id, cur, assigned_serials>>

\* Lines 107-109, 112: return both serials (the listing goes with the
\* function's frame), or sys.exit(1) when either is missing.
ReturnSerials ==
    /\ pc = "located"
    /\ IF FoundBoth
         THEN /\ logged' = logged \cup {Log("Found devices", "")}
              /\ devices' = <<>>
              /\ exitCode' = exitCode
              /\ AfterSerials
         ELSE /\ SysExit
              /\ UNCHANGED <<logged, devices, cur>>
    /\ UNCHANGED <<args, networks, initial_networks, network_id, returned, bind_result,
                   templates, template_id, switch_serial, mx85_serial, assigned_serials,
                   calls>>

\* main, lines 215-221: the dry-run report; main then returns.
DryRunReport ==
    /\ pc = "dryrun"
    /\ logged' = logged \cup
         ({Log("Dry-run mode enabled. No actual changes were made.", ""),
           Log("Would deploy", network_id)}
          \cup (IF Truthy(args.template)
                  THEN {Log("Would bind network to template", args.template)} ELSE {})
          \cup (IF Truthy(args.address)
                  THEN {Log("Would set device address", args.address)} ELSE {}))
    /\ pc' = "done"
    /\ exitCode' = "0"
    /\ UNCHANGED <<args, networks, initial_networks, network_id, returned, bind_result,
                   templates, template_id, devices, switch_serial, mx85_serial, cur,
                   assigned_serials, calls>>

\* -------------------------------------------------- deploy_meraki_device
\* The serial_number argument of the running deploy_meraki_device call
\* (main, lines 212-213).
Serial(device_type) == IF device_type = Switch THEN switch_serial ELSE mx85_serial

\* What getNetworkDevices may return: any set of the serials this run has
\* claimed so far (a claim that returned need not show in the listing).
NetworkDeviceListings ==
    SUBSET (IF cur = Switch THEN {switch_serial} ELSE {switch_serial, mx85_serial})

\* Line 118 and the outer handler, lines 145-147.
ClaimDevice ==
    /\ pc = "claim"
    /\ \/ /\ calls' = Append(calls, Call("claimNetworkDevices", <<network_id, Serial(cur)>>, TRUE, cur))
          /\ logged' = logged \cup {Log("deployment initiated", cur)}
          /\ pc' = "getDevice"
          /\ exitCode' = exitCode
       \/ /\ calls' = Append(calls, Call("claimNetworkDevices", <<network_id, Serial(cur)>>, FALSE, cur))
          /\ logged' = logged \cup {Log("Failed to deploy", cur)}
          /\ SysExit
    /\ UNCHANGED <<args, networks, initial_networks, network_id, returned, bind_result,
                   templates, template_id, devices, switch_serial, mx85_serial, cur,
                   assigned_serials>>

\* A faulty variant of CosmeticFailed: the inner handler is missing, the error reaches
\* the outer one.
CosmeticFailedExits ==
    /\ logged' = logged \cup {Log("Failed to deploy", cur)}
    /\ SysExit

\* Lines 132-133: the inner handler; execution resumes at line 135.
CosmeticFailed ==
    /\ logged' = logged \cup {Log("Could not set device name or address", cur)}
    /\ pc' = "verify"
    /\ exitCode' = exitCode

\* Line 123.
GetDevice ==
    /\ pc = "getDevice"
    /\ \/ /\ calls' = Append(calls, Call("getDevice", <<Serial(cur)>>, TRUE, cur))
          /\ logged' = logged
          /\ pc' = "rename"
          /\ exitCode' = exitCode
       \/ /\ calls' = Append(calls, Call("getDevice", <<Serial(cur)>>, FALSE, cur))
          /\ CosmeticFailed
    /\ UNCHANGED <<args, networks, initial_networks, network_id, returned, bind_result,
                   templates, template_id, devices, switch_serial, mx85_serial, cur,
                   assigned_serials>>

\* Line 129: where the try block goes after the rename.
AfterRename == IF Truthy(args.address) THEN "setAddress" ELSE "verify"

\* Lines 124-126, 129.
RenameDevice ==
    /\ pc = "rename"
    /\ \/ /\ calls' = Append(calls, Call("updateDevice", <<Serial(cur), "name">>, TRUE, cur))
          /\ logged' = logged \cup {Log("Device named", cur)}
          /\ pc' = AfterRename
          /\ exitCode' = exitCode
       \/ /\ calls' = Append(calls, Call("updateDevice", <<Serial(cur), "name">>, FALSE, cur))
          /\ CosmeticFailed
    /\ UNCHANGED <<args, networks, initial_networks, network_id, returned, bind_result,
                   templates, template_id, devices, switch_serial, mx85_serial, cur,
                   assigned_serials>>

SetAddressCall(ok) ==
    Call("updateDevice", <<Serial(cur), "address", args.address, "moveMapMarker">>, ok, cur)

\* Lines 130-131.
SetAddress ==
    /\ pc = "setAddress"
    /\ \/ /\ calls' = Append(calls, SetAddressCall(TRUE))
          /\ logged' = logged \cup {Log("Device address set", cur)}
          /\ pc' = "verify"
          /\ exitCode' = exitCode
       \/ /\ calls' = Append(calls, SetAddressCall(FALSE))
          /\ CosmeticFailed
    /\ UNCHANGED <<args, networks, initial_networks, network_id, returned, bind_result,
                   templates, template_id, devices, switch_serial, mx85_serial, cur,
                   assigned_serials>>

\* A faulty variant of Verified: the listing is not consulted.
VerifiedUnchecked(serial_number, listing) == TRUE

\* Line 139: the success criterion.
Verified(serial_number, listing) == serial_number \in listing

\* Lines 140, and main lines 213-214: the call returns; the next deployment
\* starts, or main logs completion and returns.
DeploymentVerified ==
    IF cur = Switch
      THEN /\ logged' = logged \cup {Log("Verification Successful", cur)}
           /\ cur' = Appliance
           /\ pc' = "claim"
           /\ exitCode' = exitCode
      ELSE /\ logged' = logged \cup {Log("Verification Successful", cur),
                                     Log("Deployment completed successfully!", "")}
           /\ cur' = cur
           /\ pc' = "done"
           /\ exitCode' = "0"

\* Lines 136-147.
VerifyDevice ==
    /\ pc = "verify"
    /\ \/ /\ calls' = Append(calls, Call("getNetworkDevices", <<network_id>>, FALSE, cur))
          /\ logged' = logged \cup {Log("Failed to deploy", cur)}
          /\ SysExit
          /\ UNCHANGED <<cur, assigned_serials>>
       \/ \E listing \in NetworkDeviceListings :
            /\ calls' = Append(calls, Call("getNetworkDevices", <<network_id>>, TRUE, cur))
            /\ assigned_serials' =
                 [assigned_serials EXCEPT ![cur] = [fetched |-> TRUE, serials |-> listing]]
            /\ IF Verified(Serial(cur), listing)
                 THEN DeploymentVerified
                 ELSE /\ logged' = logged \cup {Log("Verification Failed", cur)}
                      /\ SysExit
                      /\ cur' = cur
    /\ UNCHANGED <<args, networks, initial_networks, network_id, returned, bind_result,
                   templates, template_id, devices, switch_serial, mx85_serial>>

Next ==
    \/ Resolve
    \/ BindTemplate
    \/ BindNetwork
    \/ UseProvidedSerials
    \/ LocateDevices
    \/ ReturnSerials
    \/ DryRunReport
    \/ ClaimDevice
    \/ GetDevice
    \/ RenameDevice
    \/ SetAddress
    \/ VerifyDevice

Spec == Init /\ [][Next]_vars

\* ------------------------------------------- resolution invoked twice
\* get_or_create_network called twice in sequence with the same arguments,
\* against the same dashboard.
IdemInit ==
    /\ Init
    /\ ~args.dry_run
    /\ args.template = None
    /\ args.address = None
    /\ args.switch_serial = None
    /\ args.appliance_serial = None

ResolveAgain(at, next) ==
    /\ pc = at
    /\ \E ret \in RetVals :
        /\ get_or_create_network(args.network_name, args.ignore_existing, ret)
        /\ returned' = IF ret = Exit THEN returned ELSE Append(returned, ret)
        /\ network_id' = IF ret = Exit THEN network_id ELSE ret
        /\ IF ret = Exit
             THEN SysExit
             ELSE pc' = next /\ exitCode' = exitCode
    /\ UNCHANGED <<args, initial_networks, bind_result, templates, template_id,
                   devices, switch_serial, mx85_serial, cur, assigned_serials>>

FirstResolve == ResolveAgain("resolve", "resolve again")

SecondResolve == ResolveAgain("resolve again", "resolved twice")

IdemNext ==
    \/ FirstResolve
    \/ SecondResolve

SpecIdem == IdemInit /\ [][IdemNext]_vars

\* ------------------------------------------------------------ properties
\* Positions in `calls` of the calls to one of the SDK methods in `ops`.
Ops(ops) == {i \in 1..Len(calls) : calls[i].op \in ops}

\* Positions in `calls` of the calls issued while deploying `device_type`.
By(device_type) == {i \in 1..Len(calls) : calls[i].by = device_type}

MutatingOps == {"createOrganizationNetwork", "claimNetworkDevices", "updateDevice",
                "bindNetwork"}

IsClaim(c) == c.op = "claimNetworkDevices"

\* The serials passed to claimNetworkDevices, in call order.
ClaimedSerials ==
    [i \in 1..Len(SelectSeq(calls, IsClaim)) |-> SelectSeq(calls, IsClaim)[i].arg[2]]

IsPrefix(s, t) == Len(s) <= Len(t) /\ \A i \in 1..Len(s) : s[i] = t[i]

SuccessLogged(device_type) == Log("Verification Successful", device_type) \in logged

\* The listing fetched for device_type contains its serial.
ListedInNetwork(device_type) ==
    /\ assigned_serials[device_type].fetched
    /\ Serial(device_type) \in assigned_serials[device_type].serials

\* C1: with --dry-run no mutating remote call (create network, claim, update
\* device, bind) is ever issued, whatever the other flags and the dashboard.
C1_DryRunNeverMutates ==
    args.dry_run => Ops(MutatingOps) = {}

\* C2: a deployment is reported successful only after a getNetworkDevices call
\* that follows the claim of that serial returned a listing containing it; a
\* listing without the serial ends the run with status 1; and main reports
\* completion (and exits 0 outside dry-run) only when both devices passed.
C2_SuccessOnlyWhenVerified ==
    /\ \A t \in DeviceTypes :
         SuccessLogged(t) =>
           /\ ListedInNetwork(t)
           /\ \E i \in Ops({"claimNetworkDevices"}) \cap By(t) :
                /\ calls[i].ok
                /\ calls[i].arg = <<network_id, Serial(t)>>
                /\ \E j \in Ops({"getNetworkDevices"}) \cap By(t) :
                     i < j /\ calls[j].ok /\ calls[j].arg = <<network_id>>
    /\ \A t \in DeviceTypes :
         (assigned_serials[t].fetched /\ ~ListedInNetwork(t)) =>
           /\ exitCode = "1"
           /\ ~SuccessLogged(t)
           /\ Log("Deployment completed successfully!", "") \notin logged
    /\ Log("Deployment completed successfully!", "") \in logged =>
         \A t \in DeviceTypes : SuccessLogged(t) /\ ListedInNetwork(t)
    /\ (exitCode = "0" /\ ~args.dry_run) =>
         Log("Deployment completed successfully!", "") \in logged

C2_Witness ==
    /\ exitCode = "0"
    /\ ~args.dry_run
    /\ \A t \in DeviceTypes : SuccessLogged(t)

\* C3: a given name that the organization listing already holds, without
\* --ignore-existing: no identifier is returned, the run ends with status 1
\* and nothing but the network listing call was ever issued.
C3_ExistingNameStopsRun ==
    ( /\ Truthy(args.network_name)
      /\ ~args.ignore_existing
      /\ \E i \in 1..Len(initial_networks) :
            initial_networks[i].name = args.network_name
      /\ pc # "resolve" ) =>
        /\ pc = "exit"
        /\ exitCode = "1"
        /\ network_id = None
        /\ \/ calls = <<ListNetworks(TRUE)>> /\ returned = <<None>>
           \/ calls = <<ListNetworks(FALSE)>> /\ returned = <<>>
        /\ networks = initial_networks

C3_Witness ==
    /\ Truthy(args.network_name)
    /\ ~args.ignore_existing
    /\ \E i \in 1..Len(initial_networks) : initial_networks[i].name = args.network_name
    /\ returned = <<None>>
    /\ exitCode = "1"

\* The calls of the second of two get_or_create_network invocations: those
\* from its network listing call on.
SecondInvocation ==
    IF Cardinality(Ops({"getOrganizationNetworks"})) < 2 THEN {}
    ELSE {i \in 1..Len(calls) :
            \E a, b \in Ops({"getOrganizationNetworks"}) : a < b /\ b <= i}

\* C4: two resolutions in sequence with the same given name and
\* ignore_existing return the same identifier, the second issues no
\* createOrganizationNetwork call, and at most one network is created.
C4_ResolutionIdempotent ==
    ( /\ pc = "resolved twice"
      /\ Truthy(args.network_name)
      /\ args.ignore_existing ) =>
        /\ Len(returned) = 2
        /\ Truthy(returned[1])
        /\ returned[1] = returned[2]
        /\ SecondInvocation \cap Ops({"createOrganizationNetwork"}) = {}
        /\ Cardinality(Ops({"createOrganizationNetwork"})) <= 1
        /\ Len(networks) <= Len(initial_networks) + 1

\* The name was absent at first: the first invocation created the network.
C4_Witness ==
    /\ pc = "resolved twice"
    /\ Truthy(args.network_name)
    /\ args.ignore_existing
    /\ Len(networks) = Len(initial_networks) + 1
    /\ Len(initial_networks) > 0

\* C5: with both serials given the inventory is never listed and the serials
\* claimed are the two given ones, the switch first, the appliance second.
C5_ProvidedSerialsOnly ==
    (Truthy(args.switch_serial) /\ Truthy(args.appliance_serial)) =>
        /\ Ops({"getOrganizationDevices"}) = {}
        /\ IsPrefix(ClaimedSerials, <<args.switch_serial, args.appliance_serial>>)
        /\ (exitCode = "0" /\ ~args.dry_run) =>
              ClaimedSerials = <<args.switch_serial, args.appliance_serial>>

C5_Witness ==
    /\ Truthy(args.switch_serial)
    /\ Truthy(args.appliance_serial)
    /\ exitCode = "0"
    /\ Len(ClaimedSerials) = 2

\* The template listing call raised.
TemplateListingFailed ==
    \E i \in Ops({"getOrganizationConfigTemplates"}) : ~calls[i].ok

TemplateNotFound == Log("Template not found", args.template) \in logged

BindWarned == Log("Continuing deployment without template binding.", "") \in logged

\* C6, as stated: whenever bind_network_to_template fails (template not found,
\* or the listing or the bind call raised), it returned False without having
\* issued bindNetwork, and the run goes on and exits 0 if both devices verify.
C6_FailedBindingIssuesNoBind ==
    bind_result = "False" =>
        /\ Ops({"bindNetwork"}) = {}
        /\ BindWarned
        /\ (\A t \in DeviceTypes : SuccessLogged(t)) => exitCode = "0"

\* What holds of the calls once the binding has failed.
C6_FailedBindingState ==
    bind_result = "False" =>
        /\ ~args.dry_run
        /\ BindWarned
        /\ (TemplateNotFound \/ TemplateListingFailed) => Ops({"bindNetwork"}) = {}
        /\ Cardinality(Ops({"bindNetwork"})) <= 1
        /\ \A i \in Ops({"bindNetwork"}) : ~calls[i].ok
        /\ TemplateNotFound \/ TemplateListingFailed \/ Ops({"bindNetwork"}) # {}
        /\ exitCode = "1" => calls[Len(calls)].by # BNTT
        /\ (\A t \in DeviceTypes : SuccessLogged(t)) => (exitCode = "0" /\ pc = "done")

\* The step on which the binding fails: main goes on to the serials.
C6_FailedBindingStep ==
    (bind_result # "False" /\ bind_result' = "False") =>
        /\ exitCode' = None
        /\ pc' = "serials"
        /\ network_id' = network_id

\* C6, amended: a template that is not found, or a template listing that
\* raises, makes bind_network_to_template return False with no bindNetwork
\* call issued; a bindNetwork call that raises has been issued, once, and
\* also makes it return False.  In each case nothing exits there, main logs
\* the warning and goes on, and the run exits 0 when both devices verify.
C6_FailedBindingRecovered ==
    [] C6_FailedBindingState /\ [][C6_FailedBindingStep]_vars

C6_Witness ==
    /\ bind_result = "False"
    /\ TemplateNotFound
    /\ exitCode = "0"
    /\ \A t \in DeviceTypes : SuccessLogged(t)

\* The stage of main a call belongs to.
Stage(c) ==
    CASE c.by = GOCN -> 1
      [] c.by = BNTT -> 2
      [] c.by = GAD -> 3
      [] c.by = Switch -> 4
      [] c.by = Appliance -> 5

\* What holds of the calls of a run at every moment.
C7_StagesInOrder ==
    /\ \A i \in 1..(Len(calls) - 1) : Stage(calls[i]) <= Stage(calls[i + 1])
    /\ (calls # <<>> /\ Stage(calls[Len(calls)]) > 1) =>
            /\ Truthy(network_id)
            /\ returned = <<network_id>>
            /\ calls[1] = ListNetworks(TRUE)
    /\ \A i \in Ops({"claimNetworkDevices"}) :
         /\ calls[i].arg = <<network_id, Serial(calls[i].by)>>
         /\ Truthy(network_id)
         /\ Truthy(Serial(calls[i].by))
         /\ ~args.dry_run
         /\ ~(Truthy(args.switch_serial) /\ Truthy(args.appliance_serial)) =>
               /\ Truthy(switch_serial) /\ Truthy(mx85_serial)
               /\ Log("Found devices", "") \in logged
               /\ calls[i - 1].by \in {GAD, Switch}
               /\ \E k \in Ops({"getOrganizationDevices"}) : k < i /\ calls[k].ok
    /\ By(Appliance) # {} =>
         /\ SuccessLogged(Switch)
         /\ ListedInNetwork(Switch)
         /\ calls[Min(By(Appliance)) - 1] =
                Call("getNetworkDevices", <<network_id>>, TRUE, Switch)
         /\ calls[Min(By(Switch))] =
                Call("claimNetworkDevices", <<network_id, switch_serial>>, TRUE, Switch)
    /\ exitCode # None => pc \in {"exit", "done"}

\* Once the process has exited nothing more is called or changed.
C7_NothingAfterExit ==
    exitCode # None => UNCHANGED vars

\* C7: the run is resolve-network, bind-template, locate-devices,
\* deploy-switch, deploy-appliance in that order; nothing is called after a
\* fatal exit; no device is claimed without a resolved network and (when
\* auto-detecting) both classes found; the appliance is claimed only after
\* the switch was claimed and verified present.
C7_LinearAndFatalStops ==
    [] C7_StagesInOrder /\ [][C7_NothingAfterExit]_vars

C7_Witness ==
    /\ \E i \in Ops({"claimNetworkDevices"}) : calls[i].by = Appliance
    /\ ~(Truthy(args.switch_serial) /\ Truthy(args.appliance_serial))
    /\ bind_result = "True"

\* Positions in the inventory listing of the devices of each class.
SwitchClass == {i \in 1..Len(devices) : ContainsMS(devices[i].model)}
ApplianceClass == {i \in 1..Len(devices) : ContainsMX85(devices[i].model)}

\* The appliance candidates once the switch is chosen: the device taken as
\* the switch is not looked at again.
ApplianceClassBesidesSwitch ==
    IF SwitchClass = {} THEN ApplianceClass ELSE ApplianceClass \ {Min(SwitchClass)}

\* What holds when the inventory could not be used, in either reading.
C8_FatalWithoutClaim ==
    /\ pc = "located" =>
          calls[Len(calls)] = Call("getOrganizationDevices", <<"org">>, TRUE, GAD)
    /\ Log("Found devices", "") \in logged => FoundBoth
    /\ (calls # <<>> /\ calls[Len(calls)].by = GAD /\ pc = "exit") =>
          /\ exitCode = "1"
          /\ Ops({"claimNetworkDevices"}) = {}
          /\ ~calls[Len(calls)].ok \/ ~FoundBoth

\* C8, as stated: the switch is the first device whose model contains "MS",
\* the appliance the first whose model contains "MX85", each class decided
\* independently, whenever the inventory holds a device of each class;
\* otherwise, or when the listing fails, the run exits 1 with nothing claimed.
C8_FirstMatchIndependently ==
    /\ pc = "located" =>
         IF SwitchClass # {} /\ ApplianceClass # {}
           THEN /\ switch_serial = devices[Min(SwitchClass)].serial
                /\ mx85_serial = devices[Min(ApplianceClass)].serial
           ELSE ~FoundBoth
    /\ C8_FatalWithoutClaim

\* C8, amended: for an inventory whose serials are non-empty, the switch is
\* the first device whose model contains "MS", and the appliance is the first
\* device whose model contains "MX85" other than the device taken as the
\* switch; both are returned when both exist; otherwise, or when the listing
\* fails, the run exits 1 with nothing claimed.
C8_FirstMatchBesidesSwitch ==
    /\ pc = "located" =>
         IF SwitchClass # {} /\ ApplianceClassBesidesSwitch # {}
           THEN /\ switch_serial = devices[Min(SwitchClass)].serial
                /\ mx85_serial = devices[Min(ApplianceClassBesidesSwitch)].serial
           ELSE ~FoundBoth
    /\ C8_FatalWithoutClaim

\* The first "MX85" device is also the first "MS" device, and another "MX85"
\* device follows: the appliance returned is that other one.
C8_Witness ==
    /\ pc = "located"
    /\ SwitchClass # {}
    /\ Min(SwitchClass) \in ApplianceClass
    /\ ApplianceClassBesidesSwitch # {}
    /\ mx85_serial = devices[Min(ApplianceClassBesidesSwitch)].serial
    /\ mx85_serial # switch_serial

IsCosmetic(c) == c.op \in {"getDevice", "updateDevice"}

\* C9: after a claim that returned, a getDevice or updateDevice call that
\* raises is logged as a warning and exits nothing: the very next call is the
\* getNetworkDevices of the same deployment, and only that call and the
\* membership test decide between success and the fatal exit.
C9_CosmeticFailureNotFatal ==
    /\ \A i \in 1..Len(calls) :
         (IsCosmetic(calls[i]) /\ ~calls[i].ok) =>
            /\ Log("Could not set device name or address", calls[i].by) \in logged
            /\ calls[i - 1].by = calls[i].by
            /\ IF i = Len(calls)
                 THEN exitCode = None /\ pc = "verify" /\ cur = calls[i].by
                 ELSE /\ calls[i + 1].op = "getNetworkDevices"
                      /\ calls[i + 1].by = calls[i].by
                      /\ (calls[i + 1].ok /\ ListedInNetwork(calls[i].by))
                            => SuccessLogged(calls[i].by)
    /\ \A t \in DeviceTypes :
         (/\ pc = "exit"
          /\ cur = t
          /\ \E i \in Ops({"claimNetworkDevices"}) \cap By(t) : calls[i].ok) =>
            /\ calls[Len(calls)].op = "getNetworkDevices"
            /\ calls[Len(calls)].by = t
            /\ ~calls[Len(calls)].ok \/ ~ListedInNetwork(t)

C9_Witness ==
    /\ exitCode = "0"
    /\ \E i \in By(Switch) : IsCosmetic(calls[i]) /\ ~calls[i].ok
    /\ \E i \in By(Appliance) :
          calls[i].op = "updateDevice" /\ Len(calls[i].arg) = 4 /\ ~calls[i].ok

\* C10: with an address given, every deployment whose claim returned attempts
\* the updateDevice call carrying the address and the map-marker move before
\* it verifies, whether or not getDevice and the rename succeeded.
C10_AddressAlwaysAttempted ==
    \A t \in DeviceTypes :
      \A j \in Ops({"getNetworkDevices"}) \cap By(t) :
        Truthy(args.address) =>
          \E i \in 1..(j - 1) :
             /\ calls[i].op = "updateDevice"
             /\ calls[i].by = t
             /\ calls[i].arg = <<Serial(t), "address", args.address, "moveMapMarker">>
====
